---- MODULE Spec2Model ----
(***************************************************************************)
(* A model of the policy server of pps.go: the listener lifecycle          *)
(* (Run, RunWithListener), the connection session (connHandler,            *)
(* processMsg), the attribute decoder (polSetFuncs) and the response       *)
(* encoding.  Strings are sequences of one-character strings, so that      *)
(* splitting, parsing and formatting are computed and not assumed.         *)
(***************************************************************************)
EXTENDS Integers, Sequences, FiniteSets, TLC

(* ----------------------------- bounds ---------------------------------- *)

(* The most lines the peer sends on the accepted connection. *)
MaxLines == 4

(* The most connections peers open to the listener. *)
MaxDial == 1

(* ------------------------- strings and parsing ------------------------- *)

Digits ==
    {"0", "1", "2", "3", "4", "5", "6", "7", "8", "9"}

(* The value of one decimal digit, as strconv.ParseUint computes it. *)
DigitVal(ch) ==
    CASE ch = "0" -> 0 [] ch = "1" -> 1 [] ch = "2" -> 2 [] ch = "3" -> 3
      [] ch = "4" -> 4 [] ch = "5" -> 5 [] ch = "6" -> 6 [] ch = "7" -> 7
      [] ch = "8" -> 8 [] ch = "9" -> 9

(* The index of the first occurrence of ch in str, 0 when there is none
   (strings.Index, which strings.SplitN uses). *)
RECURSIVE IndexFrom(_, _, _)
IndexFrom(str, ch, i) ==
    IF i > Len(str) THEN 0
    ELSE IF str[i] = ch THEN i
    ELSE IndexFrom(str, ch, i + 1)

Index(str, ch) ==
    IndexFrom(str, ch, 1)

(* A split that keeps, as second part, only what stands between the
   first separator and the next one. *)
SplitN2DropRest(l, sep) ==
    LET i == Index(l, sep)
        rest == SubSeq(l, i + 1, Len(l))
        j == Index(rest, sep)
    IN  IF i = 0 THEN <<l>>
        ELSE <<SubSeq(l, 1, i - 1), IF j = 0 THEN rest ELSE SubSeq(rest, 1, j - 1)>>

(* strings.SplitN(l, "=", 2) (pps.go:335): at most two parts, cut at the
   first separator; a string without separator comes back as one part. *)
SplitN2(l, sep) ==
    LET i == Index(l, sep)
    IN  IF i = 0 THEN <<l>>
        ELSE <<SubSeq(l, 1, i - 1), SubSeq(l, i + 1, Len(l))>>

(* strings.Split on a one-character separator: all the parts. *)
RECURSIVE Split(_, _)
Split(str, sep) ==
    LET i == Index(str, sep)
    IN  IF i = 0 THEN <<str>>
        ELSE <<SubSeq(str, 1, i - 1)>> \o Split(SubSeq(str, i + 1, Len(str)), sep)

(* strconv.ParseUint(v, 10, 64) (pps.go:74,90,101,110,121): err == nil iff
   v is a non-empty run of decimal digits.  The range error of values of
   2^64 and above needs twenty digits and more; no modelled value has
   that many. *)
ParseUintOk(v) ==
    /\ Len(v) > 0
    /\ \A i \in 1..Len(v) : v[i] \in Digits

RECURSIVE ParseUintVal(_)
ParseUintVal(v) ==
    IF Len(v) = 0 THEN 0
    ELSE 10 * ParseUintVal(SubSeq(v, 1, Len(v) - 1)) + DigitVal(v[Len(v)])

(* The nil net.IP. *)
NilIP ==
    <<>>

(* One field of a dotted-decimal address: one to three digits, at most
   255, no leading zero in front of further digits. *)
OctetOk(f) ==
    /\ Len(f) \in 1..3
    /\ \A i \in 1..Len(f) : f[i] \in Digits
    /\ (Len(f) > 1 => f[1] # "0")
    /\ ParseUintVal(f) <= 255

(* net.ParseIP(v) (pps.go:80,117) on strings without ':': the four octets
   of a dotted-decimal IPv4 literal, the nil IP for anything else. *)
ParseIP(v) ==
    LET fs == Split(v, ".")
    IN  IF Len(fs) = 4 /\ \A i \in 1..4 : OctetOk(fs[i])
        THEN [i \in 1..4 |-> ParseUintVal(fs[i])]
        ELSE NilIP

(* A numeric attribute that becomes zero when its value does not parse. *)
SetUintZeroOnError(old, v) ==
    IF ParseUintOk(v) THEN ParseUintVal(v) ELSE 0

(* The field of a numeric attribute after its function ran on v
   (pps.go:74-77, 90-93, 101-104, 110-113, 121-124): the parsed value, and
   the value it held when v does not parse. *)
SetUint(old, v) ==
    IF ParseUintOk(v) THEN ParseUintVal(v) ELSE old

(* An address setter that assigns only when the value parses, as the
   numeric setters do. *)
SetIPKeepOnError(old, v) ==
    IF ParseIP(v) = NilIP THEN old ELSE ParseIP(v)

(* The field of an address attribute after its function ran on v
   (pps.go:80-81, 117-118): whatever net.ParseIP returns. *)
SetIP(old, v) ==
    ParseIP(v)

(* The literal that sets the stress flag (pps.go:107). *)
YesStr ==
    <<"y", "e", "s">>

(* The attribute names of polSetFuncs (pps.go:65-126), spelled as the
   character sequences that strings.SplitN hands to the map lookup. *)
K_request ==
    <<"r", "e", "q", "u", "e", "s", "t">>
K_protocol_state ==
    <<"p", "r", "o", "t", "o", "c", "o", "l", "_", "s", "t", "a", "t", "e">>
K_protocol_name ==
    <<"p", "r", "o", "t", "o", "c", "o", "l", "_", "n", "a", "m", "e">>
K_helo_name ==
    <<"h", "e", "l", "o", "_", "n", "a", "m", "e">>
K_queue_id ==
    <<"q", "u", "e", "u", "e", "_", "i", "d">>
K_sender ==
    <<"s", "e", "n", "d", "e", "r">>
K_recipient ==
    <<"r", "e", "c", "i", "p", "i", "e", "n", "t">>
K_recipient_count ==
    <<"r", "e", "c", "i", "p", "i", "e", "n", "t", "_", "c", "o", "u", "n", "t">>
K_client_address ==
    <<"c", "l", "i", "e", "n", "t", "_", "a", "d", "d", "r", "e", "s", "s">>
K_client_name ==
    <<"c", "l", "i", "e", "n", "t", "_", "n", "a", "m", "e">>
K_reverse_client_name ==
    <<"r", "e", "v", "e", "r", "s", "e", "_", "c", "l", "i", "e", "n", "t", "_", "n", "a", "m", "e">>
K_instance ==
    <<"i", "n", "s", "t", "a", "n", "c", "e">>
K_sasl_method ==
    <<"s", "a", "s", "l", "_", "m", "e", "t", "h", "o", "d">>
K_sasl_username ==
    <<"s", "a", "s", "l", "_", "u", "s", "e", "r", "n", "a", "m", "e">>
K_sasl_sender ==
    <<"s", "a", "s", "l", "_", "s", "e", "n", "d", "e", "r">>
K_size ==
    <<"s", "i", "z", "e">>
K_ccert_subject ==
    <<"c", "c", "e", "r", "t", "_", "s", "u", "b", "j", "e", "c", "t">>
K_ccert_issuer ==
    <<"c", "c", "e", "r", "t", "_", "i", "s", "s", "u", "e", "r">>
K_ccert_fingerprint ==
    <<"c", "c", "e", "r", "t", "_", "f", "i", "n", "g", "e", "r", "p", "r", "i", "n", "t">>
K_encryption_protocol ==
    <<"e", "n", "c", "r", "y", "p", "t", "i", "o", "n", "_", "p", "r", "o", "t", "o", "c", "o", "l">>
K_encryption_cipher ==
    <<"e", "n", "c", "r", "y", "p", "t", "i", "o", "n", "_", "c", "i", "p", "h", "e", "r">>
K_encryption_keysize ==
    <<"e", "n", "c", "r", "y", "p", "t", "i", "o", "n", "_", "k", "e", "y", "s", "i", "z", "e">>
K_etrn_domain ==
    <<"e", "t", "r", "n", "_", "d", "o", "m", "a", "i", "n">>
K_stress ==
    <<"s", "t", "r", "e", "s", "s">>
K_ccert_pubkey_fingerprint ==
    <<"c", "c", "e", "r", "t", "_", "p", "u", "b", "k", "e", "y", "_", "f", "i", "n", "g", "e", "r", "p", "r", "i", "n", "t">>
K_client_port ==
    <<"c", "l", "i", "e", "n", "t", "_", "p", "o", "r", "t">>
K_policy_context ==
    <<"p", "o", "l", "i", "c", "y", "_", "c", "o", "n", "t", "e", "x", "t">>
K_server_address ==
    <<"s", "e", "r", "v", "e", "r", "_", "a", "d", "d", "r", "e", "s", "s">>
K_server_port ==
    <<"s", "e", "r", "v", "e", "r", "_", "p", "o", "r", "t">>

KnownKeys ==
    {K_request,
     K_protocol_state,
     K_protocol_name,
     K_helo_name,
     K_queue_id,
     K_sender,
     K_recipient,
     K_recipient_count,
     K_client_address,
     K_client_name,
     K_reverse_client_name,
     K_instance,
     K_sasl_method,
     K_sasl_username,
     K_sasl_sender,
     K_size,
     K_ccert_subject,
     K_ccert_issuer,
     K_ccert_fingerprint,
     K_encryption_protocol,
     K_encryption_cipher,
     K_encryption_keysize,
     K_etrn_domain,
     K_stress,
     K_ccert_pubkey_fingerprint,
     K_client_port,
     K_policy_context,
     K_server_address,
     K_server_port}

(* PolicySet (pps.go:129-177): the zero value of every field, plus the
   connection id that connHandler puts in at pps.go:312. *)
PolicySet(connId) ==
    [Request |-> <<>>,
     ProtocolState |-> <<>>,
     ProtocolName |-> <<>>,
     HELOName |-> <<>>,
     QueueId |-> <<>>,
     Sender |-> <<>>,
     Recipient |-> <<>>,
     RecipientCount |-> 0,
     ClientAddress |-> NilIP,
     ClientName |-> <<>>,
     ReverseClientName |-> <<>>,
     Instance |-> <<>>,
     SASLMethod |-> <<>>,
     SASLUsername |-> <<>>,
     SASLSender |-> <<>>,
     Size |-> 0,
     CCertSubject |-> <<>>,
     CCertIssuer |-> <<>>,
     CCertFingerprint |-> <<>>,
     EncryptionProtocol |-> <<>>,
     EncryptionCipher |-> <<>>,
     EncryptionKeysize |-> 0,
     ETRNDomain |-> <<>>,
     Stress |-> FALSE,
     CCertPubkeyFingerprint |-> <<>>,
     ClientPort |-> 0,
     PolicyContext |-> <<>>,
     ServerAddress |-> NilIP,
     ServerPort |-> 0,
     PPSConnId |-> connId]

(* polSetFuncs[k](ps, v) (pps.go:65-126), for a key k of the map. *)
polSetFuncs(k, ps, v) ==
    CASE k = K_request -> [ps EXCEPT !.Request = v]
      [] k = K_protocol_state -> [ps EXCEPT !.ProtocolState = v]
      [] k = K_protocol_name -> [ps EXCEPT !.ProtocolName = v]
      [] k = K_helo_name -> [ps EXCEPT !.HELOName = v]
      [] k = K_queue_id -> [ps EXCEPT !.QueueId = v]
      [] k = K_sender -> [ps EXCEPT !.Sender = v]
      [] k = K_recipient -> [ps EXCEPT !.Recipient = v]
      [] k = K_recipient_count -> [ps EXCEPT !.RecipientCount = SetUint(ps.RecipientCount, v)]
      [] k = K_client_address -> [ps EXCEPT !.ClientAddress = SetIP(ps.ClientAddress, v)]
      [] k = K_client_name -> [ps EXCEPT !.ClientName = v]
      [] k = K_reverse_client_name -> [ps EXCEPT !.ReverseClientName = v]
      [] k = K_instance -> [ps EXCEPT !.Instance = v]
      [] k = K_sasl_method -> [ps EXCEPT !.SASLMethod = v]
      [] k = K_sasl_username -> [ps EXCEPT !.SASLUsername = v]
      [] k = K_sasl_sender -> [ps EXCEPT !.SASLSender = v]
      [] k = K_size -> [ps EXCEPT !.Size = SetUint(ps.Size, v)]
      [] k = K_ccert_subject -> [ps EXCEPT !.CCertSubject = v]
      [] k = K_ccert_issuer -> [ps EXCEPT !.CCertIssuer = v]
      [] k = K_ccert_fingerprint -> [ps EXCEPT !.CCertFingerprint = v]
      [] k = K_encryption_protocol -> [ps EXCEPT !.EncryptionProtocol = v]
      [] k = K_encryption_cipher -> [ps EXCEPT !.EncryptionCipher = v]
      [] k = K_encryption_keysize -> [ps EXCEPT !.EncryptionKeysize = SetUint(ps.EncryptionKeysize, v)]
      [] k = K_etrn_domain -> [ps EXCEPT !.ETRNDomain = v]
      [] k = K_stress -> [ps EXCEPT !.Stress = (v = YesStr)]
      [] k = K_ccert_pubkey_fingerprint -> [ps EXCEPT !.CCertPubkeyFingerprint = v]
      [] k = K_client_port -> [ps EXCEPT !.ClientPort = SetUint(ps.ClientPort, v)]
      [] k = K_policy_context -> [ps EXCEPT !.PolicyContext = v]
      [] k = K_server_address -> [ps EXCEPT !.ServerAddress = SetIP(ps.ServerAddress, v)]
      [] k = K_server_port -> [ps EXCEPT !.ServerPort = SetUint(ps.ServerPort, v)]

(* --------------------------- responses --------------------------------- *)

(* PostfixResp constants (pps.go:40-51). *)
RespOk ==
    <<"O", "K">>

RespReject ==
    <<"R", "E", "J", "E", "C", "T">>

RespDunno ==
    <<"D", "U", "N", "N", "O">>

(* PostfixTextResp constant (pps.go:57-61). *)
TextRespFilter ==
    <<"F", "I", "L", "T", "E", "R">>

(* fmt.Sprintf("%s %s", rt, t) (pps.go:350-353). *)
TextResponseOpt(rt, t) ==
    rt \o <<" ">> \o t

(* fmt.Sprintf("%s %s", rt, t) (pps.go:357-360). *)
TextResponseNonOpt(rt, t) ==
    rt \o <<" ">> \o t

(* The values the caller's Handle returns in this model: bare tokens and
   text responses built by the two helpers. *)
Responses ==
    {RespDunno,
     TextResponseOpt(RespReject, <<"n", "o">>),
     TextResponseNonOpt(TextRespFilter, <<"f", ":", "x">>)}

(* The response line with its newline but without the empty line after it. *)
SprintfActionOneNewline(resp) ==
    <<"a", "c", "t", "i", "o", "n", "=">> \o resp \o <<"\n">>

(* fmt.Sprintf("action=%s\n\n", resp) (pps.go:319). *)
SprintfAction(resp) ==
    <<"a", "c", "t", "i", "o", "n", "=">> \o resp \o <<"\n", "\n">>

(* ------------------------- the peer's lines ---------------------------- *)

(* The lines the peer sends, without their trailing newline: the blank
   line, a request attribute, a known key with no '=', an attribute other
   than request, and an unknown word with no '='. *)
PeerLines ==
    {<<>>,
     K_request \o <<"=", "a">>,
     K_request,
     K_sender \o <<"=", "b">>,
     <<"x", "y">>}

(* The listen addresses and ports a Server is configured with
   (pps.go:18,21 and the table of TestRun, pps_test.go:130-132). *)
DefaultAddr ==
    "0.0.0.0"

DefaultPort ==
    "10005"

Addrs ==
    {DefaultAddr, "256.256.256.256"}

Ports ==
    {DefaultPort, "99999"}

(* ServerOpt values (pps.go:198): the nil option and the closures that
   WithPort and WithAddr return, each described by what it assigns. *)
NilOpt ==
    [kind |-> "nil", v |-> ""]

(* WithPort, pps.go:223-227. *)
WithPort(p) ==
    [kind |-> "port", v |-> p]

(* WithAddr, pps.go:230-234. *)
WithAddr(a) ==
    [kind |-> "addr", v |-> a]

(* o(&s), pps.go:216, for a non-nil option: the assignment of the closure
   (pps.go:225, 232). *)
ApplyOpt(o, srv) ==
    IF o.kind = "port" THEN [srv EXCEPT !.lp = o.v] ELSE [srv EXCEPT !.la = o.v]

(* The loop over the options that gives up at the first nil option
   instead of skipping it. *)
RECURSIVE NewFromStopAtNil(_, _, _)
NewFromStopAtNil(srv, opts, i) ==
    IF i > Len(opts) THEN srv
    ELSE IF opts[i] = NilOpt THEN srv
    ELSE NewFromStopAtNil(ApplyOpt(opts[i], srv), opts, i + 1)

(* The loop of pps.go:212-217 from option i on: nil options are skipped,
   the others applied in order. *)
RECURSIVE NewFrom(_, _, _)
NewFrom(srv, opts, i) ==
    IF i > Len(opts) THEN srv
    ELSE IF opts[i] = NilOpt THEN NewFrom(srv, opts, i + 1)
    ELSE NewFrom(ApplyOpt(opts[i], srv), opts, i + 1)

(* New, pps.go:207-220. *)
New(opts) ==
    NewFrom([lp |-> DefaultPort, la |-> DefaultAddr], opts, 1)

(* SetPort, pps.go:237-239. *)
SetPort(srv, p) ==
    [srv EXCEPT !.lp = p]

(* SetAddr, pps.go:242-244. *)
SetAddr(srv, a) ==
    [srv EXCEPT !.la = a]

(* The options a server is built with before Run (pps_test.go:137). *)
RunOptions ==
    {<<WithAddr(a), WithPort(p)>> : a \in Addrs, p \in Ports}

(* What net.Listen can never bind: an address that is no host, a port
   outside 0..65535. *)
Bindable(srv) ==
    srv.la = DefaultAddr /\ srv.lp = DefaultPort

(* ------------------------------ state ---------------------------------- *)

VARIABLES
    options,    \* the ServerOpt arguments passed to New (pps.go:207)
    s,          \* Server: [la, lp] (pps.go:189-192)
    pcRun,      \* where Run / RunWithListener stands
    runErr,     \* the error Run returned
    listener,   \* "none", "open", "closed"
    lCloses,    \* calls of l.Close()
    ctxDone,    \* the context passed to Run is cancelled
    pcCloser,   \* the goroutine of pps.go:265-270
    dialed,     \* connections peers opened to the listener
    accepted,   \* connections l.Accept() returned
    conCtxId,   \* the connection id stored in conCtx (pps.go:287-288)
    pcSess,     \* where connHandler / processMsg stands
    c,          \* connection: [err, cc] (pps.go:180-186)
    rs,         \* the scanner c.rs: "open", or how it ended
    ps,         \* the PolicySet of the current block
    resp,       \* the response Handle returned for the current block
    ec,         \* the channel ec (pps.go:289), capacity 1
    connCloses, \* calls of c.conn.Close()
    peer,       \* the peer's end: "open", "closed", "reset", "long"
    sent,       \* the lines the peer sent so far
    nread,      \* how many of them the scanner returned
    handled,    \* the calls of Handle: record and returned value
    writes,     \* the calls of c.conn.Write: the bytes passed
    kvMap,      \* the map kvMap of the current block (server.go:136)
    done,       \* the channel done (server.go:115): "open" or "closed"
    pcConnCloser \* the goroutine of server.go:119-133

runVars ==
    <<options, s, pcRun, runErr, listener, lCloses, ctxDone, pcCloser, dialed, accepted>>

sessVars ==
    <<conCtxId, pcSess, c, rs, ps, resp, ec, connCloses>>

peerVars ==
    <<peer, sent, nread>>

logVars ==
    <<handled, writes>>

srvVars ==
    <<kvMap, done, pcConnCloser>>

vars ==
    <<runVars, sessVars, peerVars, logVars, srvVars>>

NoId ==
    0

(* A panic in any goroutine ends the whole process. *)
Crashed ==
    pcSess = "panic"

Init ==
    /\ options \in RunOptions
    /\ s = New(options)
    /\ pcRun = "listen"
    /\ runErr = "nil"
    /\ listener = "none"
    /\ lCloses = 0
    /\ ctxDone = FALSE
    /\ pcCloser = "idle"
    /\ dialed = 0
    /\ accepted = 0
    /\ conCtxId = NoId
    /\ pcSess = "idle"
    /\ c = [err |-> "nil", cc |-> FALSE]
    /\ rs = "open"
    /\ ps = PolicySet(NoId)
    /\ resp = <<>>
    /\ ec = <<>>
    /\ connCloses = 0
    /\ peer = "open"
    /\ sent = <<>>
    /\ nread = 0
    /\ handled = <<>>
    /\ writes = <<>>
    /\ kvMap = {}
    /\ done = "open"
    /\ pcConnCloser = "idle"

(* ------------------------ the listener lifecycle ----------------------- *)

(* What net.Listen (pps.go:249) can return: always an error for a
   configuration that cannot be bound, and an error or a listener for one
   that can (the port may be taken). *)
ListenOutcomes ==
    IF Bindable(s) THEN {"ok", "err"} ELSE {"err"}

(* Run without the early return: the error of net.Listen is dropped and
   RunWithListener is entered all the same. *)
RunListenIgnoreErr ==
    /\ pcRun = "listen"
    /\ \E o \in ListenOutcomes :
          /\ listener' = IF o = "err" THEN listener ELSE "open"
          /\ pcRun' = "rwl"
          /\ UNCHANGED runErr
    /\ UNCHANGED <<options, s, lCloses, ctxDone, pcCloser, dialed, accepted>>
    /\ UNCHANGED <<sessVars, peerVars, logVars, srvVars>>

(* Run, pps.go:247-254: bind the listener; an error is returned at once. *)
RunListen ==
    /\ pcRun = "listen"
    /\ \E o \in ListenOutcomes :
          IF o = "err"
          THEN /\ runErr' = "listen"
               /\ pcRun' = "returned"
               /\ UNCHANGED listener
          ELSE /\ listener' = "open"
               /\ pcRun' = "rwl"
               /\ UNCHANGED runErr
    /\ UNCHANGED <<options, s, lCloses, ctxDone, pcCloser, dialed, accepted>>
    /\ UNCHANGED <<sessVars, peerVars, logVars, srvVars>>

(* RunWithListener, pps.go:257-270: start the goroutine that closes the
   listener on cancellation, then enter the accept loop. *)
RunSpawnCloser ==
    /\ ~Crashed
    /\ pcRun = "rwl"
    /\ pcCloser' = "wait"
    /\ pcRun' = "accept"
    /\ UNCHANGED <<options, s, runErr, listener, lCloses, ctxDone, dialed, accepted>>
    /\ UNCHANGED <<sessVars, peerVars, logVars, srvVars>>

(* The goroutine closing the listener without waiting for ctx.Done(). *)
CloserCloseNoWait ==
    /\ ~Crashed
    /\ pcCloser = "wait"
    /\ listener' = "closed"
    /\ lCloses' = lCloses + 1
    /\ pcCloser' = "done"
    /\ UNCHANGED <<options, s, pcRun, runErr, ctxDone, dialed, accepted>>
    /\ UNCHANGED <<sessVars, peerVars, logVars, srvVars>>

(* The goroutine closing, on cancellation, the accepted connection as
   well as the listener, and marking the connection closed. *)
CloserCloseConn ==
    /\ ~Crashed
    /\ pcCloser = "wait"
    /\ ctxDone
    /\ listener' = "closed"
    /\ lCloses' = lCloses + 1
    /\ pcCloser' = "done"
    /\ connCloses' = IF pcSess = "idle" THEN connCloses ELSE connCloses + 1
    /\ c' = IF pcSess = "idle" THEN c ELSE [c EXCEPT !.cc = TRUE]
    /\ UNCHANGED <<options, s, pcRun, runErr, ctxDone, dialed, accepted>>
    /\ UNCHANGED <<conCtxId, pcSess, rs, ps, resp, ec>>
    /\ UNCHANGED <<peerVars, logVars, srvVars>>

(* The goroutine of pps.go:265-270: <-ctx.Done(), then l.Close(). *)
CloserClose ==
    /\ ~Crashed
    /\ pcCloser = "wait"
    /\ ctxDone
    /\ listener' = "closed"
    /\ lCloses' = lCloses + 1
    /\ pcCloser' = "done"
    /\ UNCHANGED <<options, s, pcRun, runErr, ctxDone, dialed, accepted>>
    /\ UNCHANGED <<sessVars, peerVars, logVars, srvVars>>

(* What l.Accept() (pps.go:274) can return now: the closed-listener error,
   a waiting connection, or another error of the operating system. *)
AcceptOutcomes ==
    IF listener = "closed" THEN {"closed"}
    ELSE (IF accepted < dialed THEN {"conn"} ELSE {}) \cup {"oserr"}

(* One round of the accept loop, pps.go:273-290: an Accept error leaves
   the loop and RunWithListener returns nil; a connection gets its
   connection object, its id, its context, the channel ec and the
   goroutine that runs connHandler. *)
RunAccept ==
    /\ ~Crashed
    /\ pcRun = "accept"
    /\ \E o \in AcceptOutcomes :
          IF o = "conn"
          THEN /\ accepted' = accepted + 1
               /\ conCtxId' = accepted + 1
               /\ c' = [err |-> "nil", cc |-> FALSE]
               /\ rs' = "open"
               /\ ec' = <<>>
               /\ pcSess' = "start"
               /\ pcRun' = "select"
               /\ UNCHANGED runErr
          ELSE /\ pcRun' = "returned"
               /\ runErr' = "nil"
               /\ UNCHANGED <<accepted, conCtxId, c, rs, ec, pcSess>>
    /\ UNCHANGED <<options, s, listener, lCloses, ctxDone, pcCloser, dialed>>
    /\ UNCHANGED <<ps, resp, connCloses, peerVars, logVars, srvVars>>

(* The cases of the select of pps.go:291-297 that are ready. *)
SelectReady ==
    (IF ctxDone THEN {"done"} ELSE {}) \cup (IF ec # <<>> THEN {"ec"} ELSE {})

(* pps.go:291-297: wait for the session's result or for cancellation;
   after cancellation, wait for the session's result all the same
   (<-ec) and return ctx.Err(). *)
RunSelect ==
    /\ ~Crashed
    /\ \/ /\ pcRun = "select"
          /\ \E br \in SelectReady :
                IF br = "ec"
                THEN /\ runErr' = Head(ec)
                     /\ ec' = <<>>
                     /\ pcRun' = "returned"
                ELSE /\ pcRun' = "drain"
                     /\ UNCHANGED <<runErr, ec>>
       \/ /\ pcRun = "drain"
          /\ ec # <<>>
          /\ ec' = <<>>
          /\ runErr' = "canceled"
          /\ pcRun' = "returned"
    /\ UNCHANGED <<options, s, listener, lCloses, ctxDone, pcCloser, dialed, accepted>>
    /\ UNCHANGED <<conCtxId, pcSess, c, rs, ps, resp, connCloses>>
    /\ UNCHANGED <<peerVars, logVars, srvVars>>

(* --------------------------- the session ------------------------------- *)

(* connHandler, pps.go:305-309: fetch the connection id from the context;
   without one, return an error, which the goroutine sends on ec. *)
SessStart ==
    /\ ~Crashed
    /\ pcSess = "start"
    /\ IF conCtxId # NoId
       THEN /\ pcSess' = "loop"
            /\ UNCHANGED ec
       ELSE /\ pcSess' = "returned"
            /\ ec' = <<"noid">>
    /\ UNCHANGED <<conCtxId, c, rs, ps, resp, connCloses>>
    /\ UNCHANGED <<runVars, peerVars, logVars, srvVars>>

(* The loop with one PolicySet for the whole connection instead of a
   fresh one per round. *)
SessLoopReuse ==
    /\ ~Crashed
    /\ pcSess = "loop"
    /\ IF ~c.cc
       THEN /\ ps' = [ps EXCEPT !.PPSConnId = conCtxId]
            /\ pcSess' = "scan"
            /\ UNCHANGED ec
       ELSE /\ pcSess' = "returned"
            /\ ec' = <<c.err>>
            /\ UNCHANGED ps
    /\ UNCHANGED <<conCtxId, c, rs, resp, connCloses>>
    /\ UNCHANGED <<runVars, peerVars, logVars, srvVars>>

(* pps.go:311-313 and 325: the loop condition !c.cc; a new round starts a
   fresh PolicySet and calls processMsg; when c.cc is set connHandler
   returns c.err, which the goroutine sends on ec (pps.go:290). *)
SessLoop ==
    /\ ~Crashed
    /\ pcSess = "loop"
    /\ IF ~c.cc
       THEN /\ ps' = PolicySet(conCtxId)
            /\ pcSess' = "scan"
            /\ UNCHANGED ec
       ELSE /\ pcSess' = "returned"
            /\ ec' = <<c.err>>
            /\ UNCHANGED ps
    /\ UNCHANGED <<conCtxId, c, rs, resp, connCloses>>
    /\ UNCHANGED <<runVars, peerVars, logVars, srvVars>>

(* What one call of c.rs.Scan() (pps.go:330) can do now.  A scanner that
   has stopped stays stopped; otherwise it returns the next line the peer
   sent, stops with the network's operation error once the peer has reset
   the connection (lines already buffered may still come first), stops at
   end-of-stream when the peer has closed and every line was returned, or
   stops with bufio.ErrTooLong when what follows the lines returned is
   longer than a token may be. *)
ScanOutcomes ==
    IF rs # "open" THEN {rs}
    ELSE (IF nread < Len(sent) THEN {"line"} ELSE {})
         \cup (IF peer = "reset" THEN {"operr"} ELSE {})
         \cup (IF peer = "closed" /\ nread = Len(sent) THEN {"eof"} ELSE {})
         \cup (IF peer = "long" /\ nread = Len(sent) THEN {"toolong"} ELSE {})

(* The lookup without its ok test: a key that is not in the map yields a
   nil function, and calling it panics. *)
DecodeLineNoOk(l, pset) ==
    LET sl == SplitN2(l, "=")
    IN  IF sl[1] \in KnownKeys /\ Len(sl) = 2
        THEN [st |-> "ok", ps |-> polSetFuncs(sl[1], pset, sl[2])]
        ELSE [st |-> "panic", ps |-> pset]

(* pps.go:335-338 for one non-blank line l: "ok" and the decoded record,
   or "panic" when the key is in the map and the line has no second part
   (sl[1] is out of range). *)
DecodeLine(l, pset) ==
    LET sl == SplitN2(l, "=")
    IN  IF sl[1] \in KnownKeys
        THEN IF Len(sl) < 2
             THEN [st |-> "panic", ps |-> pset]
             ELSE [st |-> "ok", ps |-> polSetFuncs(sl[1], pset, sl[2])]
        ELSE [st |-> "ok", ps |-> pset]

(* processMsg, pps.go:330-339, one round of the loop in which Scan returns
   a line: a blank line ends the block (the error check of pps.go:340
   finds none); any other line is decoded into ps. *)
SessScanLine ==
    /\ ~Crashed
    /\ pcSess = "scan"
    /\ "line" \in ScanOutcomes
    /\ nread' = nread + 1
    /\ LET l == sent[nread + 1]
       IN  IF l = <<>>
           THEN /\ pcSess' = "check"
                /\ UNCHANGED ps
           ELSE LET d == DecodeLine(l, ps)
                IN  /\ ps' = d.ps
                    /\ pcSess' = IF d.st = "panic" THEN "panic" ELSE "scan"
    /\ UNCHANGED <<conCtxId, c, rs, resp, ec, connCloses>>
    /\ UNCHANGED <<runVars, peer, sent, logVars, srvVars>>

(* c.err after the check of pps.go:340-345, when the scanner stopped as o. *)
ErrAfterScan(o, err) ==
    IF o = "toolong" THEN "read" ELSE err

(* processMsg, pps.go:330 and 340-345: Scan returns false; an error that
   is a *net.OpError is dropped, any other is stored in c.err, and
   end-of-stream is no error. *)
SessScanEnd ==
    /\ ~Crashed
    /\ pcSess = "scan"
    /\ \E o \in ScanOutcomes \ {"line"} :
          /\ rs' = o
          /\ c' = [c EXCEPT !.err = ErrAfterScan(o, c.err)]
    /\ pcSess' = "check"
    /\ UNCHANGED <<conCtxId, ps, resp, ec, connCloses>>
    /\ UNCHANGED <<runVars, peerVars, logVars, srvVars>>

(* Every record is handed to the callback, with or without a request. *)
ActionableAlways(pset) ==
    TRUE

(* pps.go:314: only a record with a request is handed to the callback. *)
Actionable(pset) ==
    pset.Request # <<>>

(* pps.go:314: after processMsg, go on to Handle or to the next round. *)
SessCheck ==
    /\ ~Crashed
    /\ pcSess = "check"
    /\ pcSess' = IF Actionable(ps) THEN "handle" ELSE "loop"
    /\ UNCHANGED <<conCtxId, c, rs, ps, resp, ec, connCloses>>
    /\ UNCHANGED <<runVars, peerVars, logVars, srvVars>>

(* pps.go:315: resp := c.h.Handle(ps); the callback picks the response. *)
SessHandle ==
    /\ ~Crashed
    /\ pcSess = "handle"
    /\ \E r \in Responses :
          /\ resp' = r
          /\ handled' = Append(handled, [ps |-> ps, resp |-> r])
    /\ pcSess' = "deadline"
    /\ UNCHANGED <<conCtxId, c, rs, ps, ec, connCloses>>
    /\ UNCHANGED <<runVars, peerVars, writes, srvVars>>

(* pps.go:316-318: SetWriteDeadline; a failure is stored in c.err. *)
SessSetWriteDeadline ==
    /\ ~Crashed
    /\ pcSess = "deadline"
    /\ \E ok \in BOOLEAN :
          c' = IF ok THEN c ELSE [c EXCEPT !.err = "deadline"]
    /\ pcSess' = "write"
    /\ UNCHANGED <<conCtxId, rs, ps, resp, ec, connCloses>>
    /\ UNCHANGED <<runVars, peerVars, logVars, srvVars>>

(* pps.go:319-324: format the response and write it; a failure is stored
   in c.err; then the next round of the loop. *)
SessWrite ==
    /\ ~Crashed
    /\ pcSess = "write"
    /\ writes' = Append(writes, SprintfAction(resp))
    /\ \E ok \in BOOLEAN :
          c' = IF ok THEN c ELSE [c EXCEPT !.err = "write"]
    /\ pcSess' = "loop"
    /\ UNCHANGED <<conCtxId, rs, ps, resp, ec, connCloses>>
    /\ UNCHANGED <<runVars, peerVars, handled, srvVars>>

(* --------------------------- the environment --------------------------- *)

(* The caller cancels the context passed to Run. *)
Cancel ==
    /\ ~ctxDone
    /\ ctxDone' = TRUE
    /\ UNCHANGED <<options, s, pcRun, runErr, listener, lCloses, pcCloser, dialed, accepted>>
    /\ UNCHANGED <<sessVars, peerVars, logVars, srvVars>>

(* A peer connects to the open listener. *)
PeerDial ==
    /\ listener = "open"
    /\ dialed < MaxDial
    /\ dialed' = dialed + 1
    /\ UNCHANGED <<options, s, pcRun, runErr, listener, lCloses, ctxDone, pcCloser, accepted>>
    /\ UNCHANGED <<sessVars, peerVars, logVars, srvVars>>

(* The peer of the accepted connection sends one more line. *)
PeerSend ==
    /\ pcSess # "idle"
    /\ peer = "open"
    /\ Len(sent) < MaxLines
    /\ \E l \in PeerLines : sent' = Append(sent, l)
    /\ UNCHANGED <<peer, nread>>
    /\ UNCHANGED <<runVars, sessVars, logVars, srvVars>>

(* The peer closes its end: end-of-stream after the lines it sent. *)
PeerClose ==
    /\ pcSess # "idle"
    /\ peer = "open"
    /\ peer' = "closed"
    /\ UNCHANGED <<sent, nread>>
    /\ UNCHANGED <<runVars, sessVars, logVars, srvVars>>

(* The peer resets the connection: reads fail with a *net.OpError. *)
PeerReset ==
    /\ pcSess # "idle"
    /\ peer = "open"
    /\ peer' = "reset"
    /\ UNCHANGED <<sent, nread>>
    /\ UNCHANGED <<runVars, sessVars, logVars, srvVars>>

(* The peer sends a line longer than the scanner's token limit
   (bufio.MaxScanTokenSize); nothing after it is ever read. *)
PeerSendLong ==
    /\ pcSess # "idle"
    /\ peer = "open"
    /\ peer' = "long"
    /\ UNCHANGED <<sent, nread>>
    /\ UNCHANGED <<runVars, sessVars, logVars, srvVars>>

(* ---------------------------- specification ---------------------------- *)

Next ==
    \/ RunListen
    \/ RunSpawnCloser
    \/ CloserClose
    \/ RunAccept
    \/ RunSelect
    \/ SessStart
    \/ SessLoop
    \/ SessScanLine
    \/ SessScanEnd
    \/ SessCheck
    \/ SessHandle
    \/ SessSetWriteDeadline
    \/ SessWrite
    \/ Cancel
    \/ PeerDial
    \/ PeerSend
    \/ PeerClose
    \/ PeerReset
    \/ PeerSendLong

Spec ==
    Init /\ [][Next]_vars

(* The Go scheduler runs every goroutine that can take a step; the peer
   and the caller owe nothing. *)
Fairness ==
    /\ WF_vars(RunListen)
    /\ WF_vars(RunSpawnCloser)
    /\ WF_vars(CloserClose)
    /\ WF_vars(RunAccept)
    /\ WF_vars(RunSelect)
    /\ WF_vars(SessStart)
    /\ WF_vars(SessLoop)
    /\ WF_vars(SessScanLine)
    /\ WF_vars(SessScanEnd)
    /\ WF_vars(SessCheck)
    /\ WF_vars(SessHandle)
    /\ WF_vars(SessSetWriteDeadline)
    /\ WF_vars(SessWrite)

FairSpec ==
    Spec /\ Fairness

(* ------------------------------ typing --------------------------------- *)

TypeOK ==
    /\ pcRun \in {"listen", "rwl", "accept", "select", "drain", "returned"}
    /\ pcSess \in {"idle", "start", "loop", "scan", "check", "handle",
                   "deadline", "write", "returned", "panic"}
    /\ pcCloser \in {"idle", "wait", "done"}
    /\ listener \in {"none", "open", "closed"}
    /\ rs \in {"open", "eof", "operr", "toolong"}
    /\ c.err \in {"nil", "read", "deadline", "write"}
    /\ c.cc \in BOOLEAN
    /\ nread \in 0..Len(sent)
    /\ Len(sent) <= MaxLines
    /\ accepted <= dialed
    /\ Len(ec) <= 1

(* ------------------------- reading the input --------------------------- *)

(* The lines the scanner has returned so far. *)
Consumed ==
    SubSeq(sent, 1, nread)

RequestPrefix ==
    <<"r", "e", "q", "u", "e", "s", "t", "=">>

IsRequestLine(l) ==
    /\ Len(l) >= Len(RequestPrefix)
    /\ SubSeq(l, 1, Len(RequestPrefix)) = RequestPrefix

RequestValue(l) ==
    SubSeq(l, Len(RequestPrefix) + 1, Len(l))

(* The request type of the block that the lines end in: the value of the
   last request line after the last blank line, empty when there is none. *)
RECURSIVE OpenRequest(_)
OpenRequest(lines) ==
    IF Len(lines) = 0 THEN <<>>
    ELSE LET l == lines[Len(lines)]
         IN  IF l = <<>> THEN <<>>
             ELSE IF IsRequestLine(l) THEN RequestValue(l)
             ELSE OpenRequest(SubSeq(lines, 1, Len(lines) - 1))

(* The request types of the complete actionable blocks among the lines, in
   the order of the blocks. *)
RECURSIVE BlockRequests(_, _)
BlockRequests(lines, i) ==
    IF i > Len(lines) THEN <<>>
    ELSE IF lines[i] = <<>> /\ OpenRequest(SubSeq(lines, 1, i - 1)) # <<>>
         THEN <<OpenRequest(SubSeq(lines, 1, i - 1))>> \o BlockRequests(lines, i + 1)
         ELSE BlockRequests(lines, i + 1)

(* The session holds a response it has not yet passed to Write. *)
ResponsePending ==
    pcSess \in {"deadline", "write"}

(* ------------------------------ claims --------------------------------- *)

(* C1: every call of Write on the connection passes exactly the bytes
   "action=" + R + "\n\n", where R is the value Handle returned for that
   block; Handle is called only with a record whose request is not empty,
   and there is one Write per call of Handle and no other. *)
C1_ResponseBytes ==
    /\ Len(writes) = IF ResponsePending THEN Len(handled) - 1 ELSE Len(handled)
    /\ \A k \in 1..Len(handled) : handled[k].ps.Request # <<>>
    /\ \A k \in 1..Len(writes) :
          writes[k] = <<"a", "c", "t", "i", "o", "n", "=">>
                      \o handled[k].resp \o <<"\n", "\n">>

(* C1: a bare token and a token with text have both been written. *)
C1_Witness ==
    /\ Len(writes) = 2
    /\ handled[1].resp = <<"D", "U", "N", "N", "O">>
    /\ handled[2].resp = <<"F", "I", "L", "T", "E", "R", " ", "f", ":", "x">>

(* C2: the records handed to Handle are those of the complete actionable
   blocks read so far, in their order (after the scanner has stopped, at
   most one more, for the block it stopped in); a block is handed over
   before the next line is read; each gets one Write, in the same order;
   and the server has not closed the connection. *)
C2_InOrder ==
    LET E == BlockRequests(Consumed, 1)
    IN  /\ Len(handled) <= Len(E) + (IF rs = "open" THEN 0 ELSE 1)
        /\ Len(handled) >= Len(E) - (IF pcSess \in {"check", "handle"} THEN 1 ELSE 0)
        /\ \A k \in 1..Len(handled) :
              k <= Len(E) => handled[k].ps.Request = E[k]
        /\ Len(writes) <= Len(handled)
        /\ Len(writes) >= Len(handled) - (IF ResponsePending THEN 1 ELSE 0)
        /\ \A k \in 1..Len(writes) :
              SubSeq(writes[k], 8, Len(writes[k]) - 2) = handled[k].resp
        /\ connCloses = 0

(* C2: two complete actionable blocks were read on one connection and each
   got its response, with different responses. *)
C2_Witness ==
    /\ Len(BlockRequests(Consumed, 1)) = 2
    /\ Len(writes) = 2
    /\ writes[1] # writes[2]
    /\ pcSess = "scan"

(* C3: when a block ends and its request type is empty (a lone blank line,
   or attributes without a request), the session's next step calls
   neither Handle nor Write and starts the next round, and that round
   goes on to read. *)
C3_EmptyBlockSkipped ==
    [][/\ (pcSess = "check" /\ rs = "open"
           /\ OpenRequest(SubSeq(sent, 1, nread - 1)) = <<>>)
          => (pcSess' \in {"check", "loop"} /\ UNCHANGED <<handled, writes, connCloses>>)
       /\ (pcSess = "loop" /\ pcSess' # "loop")
          => (pcSess' = "scan" /\ UNCHANGED <<handled, writes, connCloses>>)]_vars

(* C3: a block of attributes without a request was read and skipped, and
   the session reads again. *)
C3_Witness ==
    /\ pcSess = "scan"
    /\ nread = 2
    /\ sent[1] = <<"s", "e", "n", "d", "e", "r", "=", "b">>
    /\ sent[2] = <<>>
    /\ handled = <<>>
    /\ writes = <<>>

(* C4: once a session is spawned, the accept loop does not wait for it:
   while the session runs and Run has not returned, Run is at Accept. *)
C4_AcceptLoopDoesNotWait ==
    (pcSess \notin {"idle", "returned", "panic"} /\ pcRun # "returned")
        => pcRun = "accept"

(* C5: reading a non-blank line without '=' leaves the record unchanged,
   fails nothing, and the session keeps reading the block. *)
C5_LineWithoutEqIgnored ==
    [][(/\ pcSess = "scan"
        /\ nread' = nread + 1
        /\ sent[nread + 1] # <<>>
        /\ \A i \in 1..Len(sent[nread + 1]) : sent[nread + 1][i] # "=")
       => (ps' = ps /\ pcSess' = "scan")]_vars

(* C6: when binding the listener fails, Run has returned that error and
   nothing else has happened: no closer goroutine, no accepted
   connection, no session, no call of Handle. *)
C6_BindFailureReturns ==
    (pcRun # "listen" /\ listener = "none")
        => /\ pcRun = "returned"
           /\ runErr = "listen"
           /\ pcCloser = "idle"
           /\ accepted = 0
           /\ pcSess = "idle"
           /\ handled = <<>>

(* C6: binding failed for a configuration that could have been bound. *)
C6_Witness ==
    /\ pcRun = "returned"
    /\ runErr = "listen"
    /\ s.la = "0.0.0.0"
    /\ s.lp = "10005"

(* C7: once the context is cancelled, Run returns (unless the process has
   panicked). *)
C7_RunReturnsAfterCancel ==
    (ctxDone /\ ~Crashed) ~> (pcRun = "returned" \/ Crashed)

(* C8: once the scanner has met end-of-stream, connHandler returns. *)
C8_ReturnsAfterEOF ==
    (rs = "eof") ~> (pcSess = "returned")

(* What ends a session: the scanner has stopped, or setting the deadline
   or writing has failed. *)
SessionOver ==
    rs # "open" \/ c.err \in {"deadline", "write"}

(* C9: the server closes the socket of a session that is over, once. *)
C9_SocketClosedOnce ==
    SessionOver ~> (connCloses = 1)

(* C10: after SetWriteDeadline has failed no Write is attempted, and after
   either failure the session neither reads nor calls Handle again. *)
C10_WriteFailureEndsSession ==
    /\ c.err = "deadline" => pcSess # "write"
    /\ c.err \in {"deadline", "write"} => pcSess \notin {"scan", "check", "handle"}

(* C11: once the scanner has stopped on a read error that is neither
   end-of-stream nor the closed-connection error (an over-long line, a
   reset by the peer), connHandler returns and its result is that error. *)
C11_ReadErrorReturned ==
    (rs = "toolong" \/ (rs = "operr" /\ peer = "reset"))
        ~> (pcSess = "returned" /\ c.err = "read")

(* A session has failed: a read, deadline or write error, or a panic. *)
SessionFailed ==
    c.err # "nil" \/ rs \in {"operr", "toolong"} \/ Crashed

(* C12: a failure inside a session stops neither the process nor the
   accept loop: unless the context is cancelled, RunWithListener is still
   at Accept after it. *)
C12_FailureContained ==
    SessionFailed => (~Crashed /\ (pcRun = "accept" \/ ctxDone))

(* C13: the listener is closed at most once and only after the context
   was cancelled; once it is closed no connection is accepted any more;
   and the Accept that fails on the closed listener ends RunWithListener
   with a nil error. *)
C13_ListenerClosedByCancel ==
    /\ [](/\ lCloses <= 1
          /\ (lCloses = 1) = (listener = "closed")
          /\ (listener = "closed" => ctxDone))
    /\ [][/\ listener = "closed" => accepted' = accepted
          /\ (listener = "closed" /\ pcRun = "accept" /\ pcRun' # pcRun)
             => (pcRun' = "returned" /\ runErr' = "nil")]_vars

(* C13: the listener was closed while a connection was waiting; it was
   not accepted and RunWithListener returned nil. *)
C13_Witness ==
    /\ listener = "closed"
    /\ lCloses = 1
    /\ dialed = 1
    /\ accepted = 0
    /\ pcRun = "returned"
    /\ runErr = "nil"

(* Any step the session can take by itself. *)
SessionStep ==
    \/ SessStart
    \/ SessLoop
    \/ SessCheck
    \/ SessHandle
    \/ SessSetWriteDeadline
    \/ SessWrite

(* C14: the cancellation and what the server does because of it (closing
   the listener, leaving the select) change nothing of an accepted
   connection: not its socket, not the session's position, record or
   error, not what was read, handed over or written; and a session that
   is deciding or writing after the cancellation can take its next step. *)
C14_CancelLeavesSessions ==
    /\ [][(/\ pcSess # "idle"
           /\ ctxDone'
           /\ (~ctxDone \/ pcCloser' # pcCloser \/ pcRun' # pcRun))
          => UNCHANGED <<pcSess, c, rs, ps, resp, connCloses, nread, handled, writes>>]_vars
    /\ []((ctxDone /\ pcSess \in {"start", "loop", "check", "handle", "deadline", "write"})
          => (connCloses = 0 /\ ENABLED SessionStep))

(* C14: after the cancellation closed the listener and RunWithListener
   left its select, the session is writing the response of a block. *)
C14_Witness ==
    /\ ctxDone
    /\ pcCloser = "done"
    /\ pcRun = "drain"
    /\ pcSess = "write"
    /\ connCloses = 0

(* ------------------- constructing and configuring a Server ------------- *)

(* The most options passed to New. *)
MaxOpts == 3

(* The options New is called with (pps_test.go:59, 73, 83, 115). *)
OptMenu ==
    {NilOpt, WithAddr("1.2.3.4"), WithAddr("256.256.256.256"),
     WithPort("1234"), WithPort("99999")}

(* The arguments of SetAddr and SetPort (pps_test.go:92, 103). *)
SetAddrs ==
    {"1.2.3.4", "127.0.0.1"}

SetPorts ==
    {"1234", "44440"}

RECURSIVE SeqsUpTo(_, _)
SeqsUpTo(S, n) ==
    IF n = 0 THEN {<<>>}
    ELSE LET shorter == SeqsUpTo(S, n - 1)
         IN  shorter \cup {Append(q, x) : q \in shorter, x \in S}

(* Before New is called: the options are chosen, no Server exists yet. *)
InitNew ==
    /\ options \in SeqsUpTo(OptMenu, MaxOpts)
    /\ s = [la |-> "", lp |-> ""]
    /\ pcRun = "new"
    /\ runErr = "nil"
    /\ listener = "none"
    /\ lCloses = 0
    /\ ctxDone = FALSE
    /\ pcCloser = "idle"
    /\ dialed = 0
    /\ accepted = 0
    /\ conCtxId = NoId
    /\ pcSess = "idle"
    /\ c = [err |-> "nil", cc |-> FALSE]
    /\ rs = "open"
    /\ ps = PolicySet(NoId)
    /\ resp = <<>>
    /\ ec = <<>>
    /\ connCloses = 0
    /\ peer = "open"
    /\ sent = <<>>
    /\ nread = 0
    /\ handled = <<>>
    /\ writes = <<>>
    /\ kvMap = {}
    /\ done = "open"
    /\ pcConnCloser = "idle"

(* s := New(options...), pps.go:207-220. *)
CallNew ==
    /\ pcRun = "new"
    /\ s' = New(options)
    /\ pcRun' = "built"
    /\ UNCHANGED <<options, runErr, listener, lCloses, ctxDone, pcCloser, dialed, accepted>>
    /\ UNCHANGED <<sessVars, peerVars, logVars, srvVars>>

(* s.SetAddr(a), pps.go:242-244. *)
CallSetAddr ==
    /\ pcRun = "built"
    /\ \E a \in SetAddrs : s' = SetAddr(s, a)
    /\ UNCHANGED <<options, pcRun, runErr, listener, lCloses, ctxDone, pcCloser, dialed, accepted>>
    /\ UNCHANGED <<sessVars, peerVars, logVars, srvVars>>

(* s.SetPort(p), pps.go:237-239. *)
CallSetPort ==
    /\ pcRun = "built"
    /\ \E p \in SetPorts : s' = SetPort(s, p)
    /\ UNCHANGED <<options, pcRun, runErr, listener, lCloses, ctxDone, pcCloser, dialed, accepted>>
    /\ UNCHANGED <<sessVars, peerVars, logVars, srvVars>>

NextNew ==
    \/ CallNew
    \/ CallSetAddr
    \/ CallSetPort

SpecNew ==
    InitNew /\ [][NextNew]_vars

(* The value the last option of the kind assigns, dflt when there is none. *)
LastOption(opts, kind, dflt) ==
    LET I == {i \in 1..Len(opts) : opts[i].kind = kind}
    IN  IF I = {} THEN dflt
        ELSE opts[CHOOSE i \in I : \A j \in I : j <= i].v

(* C15: New gives address 0.0.0.0 and port 10005 unless an option says
   otherwise; of several WithAddr (WithPort) options the last one wins,
   nil options count for nothing, and an option of one kind does not touch
   the other field; after construction a step that changes the address
   (SetAddr) leaves the port and one that changes the port (SetPort)
   leaves the address, and the new value is one that was passed. *)
C15_NewAndSetters ==
    [][/\ (pcRun = "new" /\ pcRun' = "built")
          => /\ s'.la = LastOption(options, "addr", "0.0.0.0")
             /\ s'.lp = LastOption(options, "port", "10005")
       /\ (pcRun = "built" /\ s'.la # s.la)
          => (s'.lp = s.lp /\ s'.la \in SetAddrs)
       /\ (pcRun = "built" /\ s'.lp # s.lp)
          => (s'.la = s.la /\ s'.lp \in SetPorts)]_vars

(* C15: a Server built from a nil option followed by two address options
   and later given another port. *)
C15_Witness ==
    /\ pcRun = "built"
    /\ options = <<NilOpt, WithAddr("256.256.256.256"), WithAddr("1.2.3.4")>>
    /\ s = [la |-> "1.2.3.4", lp |-> "44440"]

(* ------------------------- decoding one block ------------------------- *)

(* The most lines of the block that is decoded. *)
MaxDecode == 2

(* The attributes that are strings, numbers and addresses in PolicySet
   (pps.go:129-177). *)
StringKeys ==
    {K_request, K_protocol_state, K_protocol_name, K_helo_name, K_queue_id,
     K_sender, K_recipient, K_client_name, K_reverse_client_name,
     K_instance, K_sasl_method, K_sasl_username, K_sasl_sender,
     K_ccert_subject, K_ccert_issuer, K_ccert_fingerprint,
     K_encryption_protocol, K_encryption_cipher, K_etrn_domain,
     K_ccert_pubkey_fingerprint, K_policy_context}

NumericKeys ==
    {K_recipient_count, K_size, K_encryption_keysize, K_client_port,
     K_server_port}

AddressKeys ==
    {K_client_address, K_server_address}

(* The field of the record that belongs to a string attribute. *)
StringField(pset, k) ==
    CASE k = K_request -> pset.Request
      [] k = K_protocol_state -> pset.ProtocolState
      [] k = K_protocol_name -> pset.ProtocolName
      [] k = K_helo_name -> pset.HELOName
      [] k = K_queue_id -> pset.QueueId
      [] k = K_sender -> pset.Sender
      [] k = K_recipient -> pset.Recipient
      [] k = K_client_name -> pset.ClientName
      [] k = K_reverse_client_name -> pset.ReverseClientName
      [] k = K_instance -> pset.Instance
      [] k = K_sasl_method -> pset.SASLMethod
      [] k = K_sasl_username -> pset.SASLUsername
      [] k = K_sasl_sender -> pset.SASLSender
      [] k = K_ccert_subject -> pset.CCertSubject
      [] k = K_ccert_issuer -> pset.CCertIssuer
      [] k = K_ccert_fingerprint -> pset.CCertFingerprint
      [] k = K_encryption_protocol -> pset.EncryptionProtocol
      [] k = K_encryption_cipher -> pset.EncryptionCipher
      [] k = K_etrn_domain -> pset.ETRNDomain
      [] k = K_ccert_pubkey_fingerprint -> pset.CCertPubkeyFingerprint
      [] k = K_policy_context -> pset.PolicyContext

(* The field of the record that belongs to a numeric attribute. *)
NumericField(pset, k) ==
    CASE k = K_recipient_count -> pset.RecipientCount
      [] k = K_size -> pset.Size
      [] k = K_encryption_keysize -> pset.EncryptionKeysize
      [] k = K_client_port -> pset.ClientPort
      [] k = K_server_port -> pset.ServerPort

(* The field of the record that belongs to an address attribute. *)
AddressField(pset, k) ==
    CASE k = K_client_address -> pset.ClientAddress
      [] k = K_server_address -> pset.ServerAddress


(* The lines of the decoded block: unknown keys, each numeric and address
   attribute with a value that parses and one that does not, and string
   attributes whose value is empty or holds further '=' signs. *)
DecodeLines ==
    {<<"f", "o", "o", "=", "b">>,
     K_request \o <<"x", "=", "a">>,
     K_recipient_count \o <<"=", "3">>,
     K_recipient_count \o <<"=", "-", "1">>,
     K_size \o <<"=", "1", "2">>,
     K_size \o <<"=", "x">>,
     K_size \o <<"=">>,
     K_encryption_keysize \o <<"=", "7">>,
     K_encryption_keysize \o <<"=", "1", "=", "2">>,
     K_client_port \o <<"=", "2", "5">>,
     K_client_port \o <<"=", "2", "5", "x">>,
     K_server_port \o <<"=", "2", "5">>,
     K_server_port \o <<"=", " ", "2">>,
     K_client_address \o <<"=", "1", ".", "2", ".", "3", ".", "4">>,
     K_client_address \o <<"=", "1", ".", "2", ".", "3">>,
     K_server_address \o <<"=", "1", "0", ".", "0", ".", "0", ".", "1">>,
     K_server_address \o <<"=", "2", "5", "6", ".", "0", ".", "0", ".", "1">>,
     K_request \o <<"=", "a">>,
     K_request \o <<"=">>,
     K_sender \o <<"=", "a", "=", "b">>,
     K_ccert_subject \o <<"=", "C", "N", "=", "x", "=">>}

(* A session that has started a round of its loop and is in processMsg
   (pps.go:311-313, 330), with the lines of the block waiting to be read. *)
InitDecode ==
    /\ options = <<WithAddr(DefaultAddr), WithPort(DefaultPort)>>
    /\ s = New(options)
    /\ pcRun = "select"
    /\ runErr = "nil"
    /\ listener = "open"
    /\ lCloses = 0
    /\ ctxDone = FALSE
    /\ pcCloser = "wait"
    /\ dialed = 1
    /\ accepted = 1
    /\ conCtxId = 1
    /\ pcSess = "scan"
    /\ c = [err |-> "nil", cc |-> FALSE]
    /\ rs = "open"
    /\ ps = PolicySet(1)
    /\ resp = <<>>
    /\ ec = <<>>
    /\ connCloses = 0
    /\ peer = "open"
    /\ sent \in SeqsUpTo(DecodeLines, MaxDecode)
    /\ nread = 0
    /\ handled = <<>>
    /\ writes = <<>>
    /\ kvMap = {}
    /\ done = "open"
    /\ pcConnCloser = "idle"

NextDecode ==
    SessScanLine

SpecDecode ==
    InitDecode /\ [][NextDecode]_vars

(* The line that the step reads. *)
LineRead ==
    sent[nread + 1]

(* The step reads a line. *)
ReadsLine ==
    pcSess = "scan" /\ nread' = nread + 1

(* The position of the first '=' of a line that has one. *)
FirstEq(l) ==
    CHOOSE i \in 1..Len(l) : l[i] = "=" /\ \A j \in 1..(i - 1) : l[j] # "="

HasEq(l) ==
    \E i \in 1..Len(l) : l[i] = "="

KeyOf(l) ==
    SubSeq(l, 1, FirstEq(l) - 1)

ValueOf(l) ==
    SubSeq(l, FirstEq(l) + 1, Len(l))

(* C16: reading a line key=value whose key is no known attribute name
   leaves every field of the record as it was, and the block goes on being
   read. *)
C16_UnknownKeyIgnored ==
    [][(ReadsLine /\ HasEq(LineRead) /\ KeyOf(LineRead) \notin KnownKeys)
       => (ps' = ps /\ pcSess' = "scan")]_vars

(* C16: an unknown key was read after a field had been set, and the field
   is still there. *)
C16_Witness ==
    /\ nread = 2
    /\ sent[1] = K_sender \o <<"=", "a", "=", "b">>
    /\ sent[2] = <<"f", "o", "o", "=", "b">>
    /\ ps.Sender = <<"a", "=", "b">>
    /\ pcSess = "scan"

(* The value does not parse as an unsigned decimal number. *)
MalformedNumber(v) ==
    v = <<>> \/ \E i \in 1..Len(v) : v[i] \notin Digits

(* The step reads a numeric attribute whose value does not parse. *)
ReadsMalformedNumber(k) ==
    /\ ReadsLine
    /\ HasEq(LineRead)
    /\ KeyOf(LineRead) = k
    /\ MalformedNumber(ValueOf(LineRead))

(* The step reads an address attribute whose value is no IP literal. *)
ReadsMalformedAddress(k) ==
    /\ ReadsLine
    /\ HasEq(LineRead)
    /\ KeyOf(LineRead) = k
    /\ ParseIP(ValueOf(LineRead)) = NilIP

(* C17, as claimed: after a malformed value is decoded the field of the
   numeric or address attribute is at its zero value, whatever the block
   held before, and the session goes on. *)
C17_MalformedGivesZero ==
    [][/\ \A k \in NumericKeys :
             ReadsMalformedNumber(k)
                => (NumericField(ps', k) = 0 /\ pcSess' = "scan")
       /\ \A k \in AddressKeys :
             ReadsMalformedAddress(k)
                => (AddressField(ps', k) = NilIP /\ pcSess' = "scan")]_vars

(* C17, amended: a malformed value of a numeric attribute leaves the field
   at the value it held before the line (zero, unless the block had the
   key earlier with a value that parsed); a malformed value of an address
   attribute puts the field at its zero value; neither raises an error and
   the session goes on. *)
C17_MalformedNumberKeepsAddressZero ==
    [][/\ \A k \in NumericKeys :
             ReadsMalformedNumber(k)
                => (NumericField(ps', k) = NumericField(ps, k) /\ pcSess' = "scan")
       /\ \A k \in AddressKeys :
             ReadsMalformedAddress(k)
                => (AddressField(ps', k) = NilIP /\ pcSess' = "scan")]_vars

(* C17: a malformed size was read after a valid one, and a malformed
   address was read after a valid one. *)
C17_Witness ==
    \/ /\ nread = 2
       /\ sent[1] = K_size \o <<"=", "1", "2">>
       /\ sent[2] = K_size \o <<"=", "x">>
       /\ ps.Size = 12
    \/ /\ nread = 2
       /\ sent[1] = K_client_address \o <<"=", "1", ".", "2", ".", "3", ".", "4">>
       /\ sent[2] = K_client_address \o <<"=", "1", ".", "2", ".", "3">>
       /\ ps.ClientAddress = NilIP

(* C18: a line that starts with the name of a string attribute and '='
   puts everything after that first '=' into the field, further '=' signs
   and the empty value included. *)
C18_SplitOnFirstEq ==
    [][ReadsLine
       => \A k \in StringKeys :
             (/\ Len(LineRead) > Len(k)
              /\ SubSeq(LineRead, 1, Len(k)) = k
              /\ LineRead[Len(k) + 1] = "=")
             => /\ StringField(ps', k) = SubSeq(LineRead, Len(k) + 2, Len(LineRead))
                /\ pcSess' = "scan"]_vars

(* C18: a value with '=' signs and an empty value were both stored. *)
C18_Witness ==
    /\ nread = 2
    /\ sent[1] = K_ccert_subject \o <<"=", "C", "N", "=", "x", "=">>
    /\ sent[2] = K_request \o <<"=">>
    /\ ps.CCertSubject = <<"C", "N", "=", "x", "=">>
    /\ ps.Request = <<>>


(* ------------------------ records across blocks ------------------------ *)

(* The lines cut into blocks at the blank lines; the last block is the one
   that no blank line has ended yet. *)
RECURSIVE SplitBlocks(_)
SplitBlocks(lines) ==
    IF \A i \in 1..Len(lines) : lines[i] # <<>>
    THEN <<lines>>
    ELSE LET i == CHOOSE j \in 1..Len(lines) :
                      lines[j] = <<>> /\ \A m \in 1..(j - 1) : lines[m] # <<>>
         IN  <<SubSeq(lines, 1, i - 1)>> \o SplitBlocks(SubSeq(lines, i + 1, Len(lines)))

SenderPrefix ==
    <<"s", "e", "n", "d", "e", "r", "=">>

(* What follows the prefix in the last line of the block that starts with
   it, empty when no line does. *)
RECURSIVE LastValue(_, _)
LastValue(block, prefix) ==
    IF Len(block) = 0 THEN <<>>
    ELSE LET l == block[Len(block)]
         IN  IF Len(l) >= Len(prefix) /\ SubSeq(l, 1, Len(prefix)) = prefix
             THEN SubSeq(l, Len(prefix) + 1, Len(l))
             ELSE LastValue(SubSeq(block, 1, Len(block) - 1), prefix)

(* The record that the lines of one block alone describe. *)
BlockRecord(block) ==
    [PolicySet(conCtxId) EXCEPT !.Request = LastValue(block, RequestPrefix),
                                !.Sender = LastValue(block, SenderPrefix)]

(* The blocks read so far that name a request. *)
RequestBlocks ==
    SelectSeq(SplitBlocks(Consumed), LAMBDA b : LastValue(b, RequestPrefix) # <<>>)

(* C19: every record handed to the callback holds what the lines of its
   own block say and nothing of an earlier block, and every record of the
   connection carries the connection's identifier. *)
C19_FreshRecordPerBlock ==
    /\ Len(handled) <= Len(RequestBlocks)
    /\ \A k \in 1..Len(handled) :
          /\ handled[k].ps = BlockRecord(RequestBlocks[k])
          /\ handled[k].ps.PPSConnId = conCtxId
          /\ conCtxId # NoId

(* C19: a block with a sender was handled, and after it a block without
   one, whose record has no sender. *)
C19_Witness ==
    /\ Len(handled) = 2
    /\ handled[1].ps.Sender = <<"b">>
    /\ handled[2].ps.Sender = <<>>
    /\ handled[2].ps.PPSConnId = handled[1].ps.PPSConnId

(* C20: once a read has failed with the network's operation error while
   the session's error was unset, the session ends: connHandler returns,
   and what it returns is no error. *)
C20_ClosedReadEndsCleanly ==
    (rs = "operr" /\ c.err = "nil" /\ ~Crashed)
        ~> (pcSess = "returned" /\ c.err = "nil")


(* C21: Handle and Write are called only for blocks that a blank line has
   ended: there are never more calls of either than complete blocks with a
   request among the lines read. *)
C21_OnlyCompleteBlocksHandled ==
    /\ Len(handled) <= Len(BlockRequests(Consumed, 1))
    /\ Len(writes) <= Len(BlockRequests(Consumed, 1))


(* The record with the field of an address attribute set to v. *)
WithAddressField(pset, k, v) ==
    CASE k = K_client_address -> [pset EXCEPT !.ClientAddress = v]
      [] k = K_server_address -> [pset EXCEPT !.ServerAddress = v]

(* C22, as claimed: decoding a malformed value of a numeric or of an
   address attribute leaves the whole record as it was before the line. *)
C22_MalformedLeavesRecord ==
    [][/\ \A k \in NumericKeys : ReadsMalformedNumber(k) => ps' = ps
       /\ \A k \in AddressKeys : ReadsMalformedAddress(k) => ps' = ps]_vars

(* C22, amended: decoding a malformed value of a numeric attribute leaves
   the whole record as it was before the line; decoding a malformed value
   of an address attribute puts that one field at its zero value, whatever
   it held, and leaves every other field as it was. *)
C22_MalformedNumberLeavesRecord ==
    [][/\ \A k \in NumericKeys : ReadsMalformedNumber(k) => ps' = ps
       /\ \A k \in AddressKeys :
             ReadsMalformedAddress(k) => ps' = WithAddressField(ps, k, NilIP)]_vars

(* C22: a malformed port was read after a valid one and the port is kept;
   a malformed server address was read after a sender and a valid address,
   and only the address is gone. *)
C22_Witness ==
    \/ /\ nread = 2
       /\ sent[1] = K_client_port \o <<"=", "2", "5">>
       /\ sent[2] = K_client_port \o <<"=", "2", "5", "x">>
       /\ ps.ClientPort = 25
    \/ /\ nread = 2
       /\ sent[1] = K_server_address \o <<"=", "1", "0", ".", "0", ".", "0", ".", "1">>
       /\ sent[2] = K_server_address \o <<"=", "2", "5", "6", ".", "0", ".", "0", ".", "1">>
       /\ ps.ServerAddress = NilIP


(* ------------------- the session of server.go -------------------------- *)

(* The most lines the peer of the session sends. *)
MaxSrvLines == 3

(* Lines a peer sends: blank, key=value, a line without '=' and one with
   two of them. *)
SrvLines ==
    {<<>>, <<"a", "=", "b">>, <<"x", "y">>, <<"a", "=", "b", "=", "c">>}

(* The bytes of server.go:167. *)
SrvResponse ==
    <<"a", "c", "t", "i", "o", "n", "=", "D", "U", "N", "N", "O", "\n", "\n">>

(* Run has accepted a connection and started go connHandler(conCtx, conn)
   (server.go:88-104); the Server is the one New builds (server.go:44-47). *)
InitSrv ==
    /\ options = <<>>
    /\ s = [la |-> "0.0.0.0", lp |-> "12346"]
    /\ pcRun = "accept"
    /\ runErr = "nil"
    /\ listener = "open"
    /\ lCloses = 0
    /\ ctxDone = FALSE
    /\ pcCloser = "idle"
    /\ dialed = 1
    /\ accepted = 1
    /\ conCtxId = 1
    /\ pcSess = "start"
    /\ c = [err |-> "nil", cc |-> FALSE]
    /\ rs = "open"
    /\ ps = PolicySet(NoId)
    /\ resp = <<>>
    /\ ec = <<>>
    /\ connCloses = 0
    /\ peer = "open"
    /\ sent = <<>>
    /\ nread = 0
    /\ handled = <<>>
    /\ writes = <<>>
    /\ kvMap = {}
    /\ done = "open"
    /\ pcConnCloser = "idle"

(* What the session changes of the state of pps.go's session: nothing but
   pcSess, c and connCloses. *)
SrvFrame ==
    UNCHANGED <<runVars, conCtxId, rs, ps, resp, ec, peer, sent, handled>>

(* server.go:111-133: connHandler makes the channel done and starts the
   goroutine that will close the connection. *)
SrvSpawnCloser ==
    /\ pcSess = "start"
    /\ pcSess' = "loop"
    /\ pcConnCloser' = "select"
    /\ UNCHANGED <<c, connCloses, nread, writes, kvMap, done>>
    /\ SrvFrame

(* The places where the session sends on done (server.go:141, 148, 165,
   169), and where it goes on once the value is taken: out of the read
   loop (142, or 150-152 with the empty line a failed read returns), on to
   Write, or to the next round. *)
SendPoints ==
    {"sendEOF", "sendErr", "sendDeadline", "sendWrite"}

AfterSend(pc) ==
    CASE pc = "sendEOF" -> "after"
      [] pc = "sendErr" -> "after"
      [] pc = "sendDeadline" -> "write"
      [] pc = "sendWrite" -> "loop"

(* done is unbuffered: a send completes only together with the receive of
   server.go:122, which the goroutine performs once. *)
SrvDoneHandoff ==
    /\ pcSess \in SendPoints
    /\ pcConnCloser = "select"
    /\ pcSess' = AfterSend(pcSess)
    /\ pcConnCloser' = "close"
    /\ UNCHANGED <<c, connCloses, nread, writes, kvMap, done>>
    /\ SrvFrame

(* server.go:120-121, and 122 on a closed channel: the select of the
   goroutine ends because the context is done or done was closed. *)
SrvCloserSelect ==
    /\ pcConnCloser = "select"
    /\ ctxDone \/ done = "closed"
    /\ pcConnCloser' = "close"
    /\ UNCHANGED <<pcSess, c, connCloses, nread, writes, kvMap, done>>
    /\ SrvFrame

(* server.go:128-131: c.conn.Close(). *)
SrvCloserClose ==
    /\ pcConnCloser = "close"
    /\ connCloses' = connCloses + 1
    /\ pcConnCloser' = "setcc"
    /\ UNCHANGED <<pcSess, c, nread, writes, kvMap, done>>
    /\ SrvFrame

(* server.go:132: c.cc = true, and the goroutine ends. *)
SrvCloserSetCC ==
    /\ pcConnCloser = "setcc"
    /\ c' = [c EXCEPT !.cc = TRUE]
    /\ pcConnCloser' = "exited"
    /\ UNCHANGED <<pcSess, connCloses, nread, writes, kvMap, done>>
    /\ SrvFrame

(* What the unsynchronised read of c.cc at server.go:135 can see: the
   value before the write of server.go:132 at any time, the written value
   once it was written. *)
SeenCC ==
    IF c.cc THEN {TRUE, FALSE} ELSE {FALSE}

(* server.go:135-136, and 174 with the deferred close(done) of 116: the
   loop condition; a new round starts with an empty kvMap. *)
SrvLoop ==
    /\ pcSess = "loop"
    /\ \E cc \in SeenCC :
          IF cc
          THEN /\ pcSess' = "returned"
               /\ done' = "closed"
               /\ UNCHANGED kvMap
          ELSE /\ pcSess' = "read"
               /\ kvMap' = {}
               /\ UNCHANGED done
    /\ UNCHANGED <<c, connCloses, nread, writes, pcConnCloser>>
    /\ SrvFrame

(* What one call of c.rb.ReadString('\n') (server.go:138) can return now:
   the next line the peer sent; the network's operation error once the
   connection was closed here or reset by the peer (lines already
   buffered may still come first); io.EOF when the peer has closed and
   every line was returned.  The connection of net.Listen("tcp") wraps
   every other failure in a *net.OpError, so "other" is never returned. *)
ReadOutcomes ==
    (IF nread < Len(sent) THEN {"line"} ELSE {})
    \cup (IF connCloses > 0 \/ peer = "reset" THEN {"operr"} ELSE {})
    \cup (IF peer = "closed" /\ connCloses = 0 /\ nread = Len(sent)
          THEN {"eof"} ELSE {})

(* The map after kvMap[k] = v. *)
MapSet(map, k, v) ==
    {e \in map : e[1] # k} \cup {<<k, v>>}

(* server.go:138-159, one round of the inner loop: io.EOF sends on done
   and leaves the loop; a *net.OpError leaves the loop; any other error
   is stored and sent on done; a line is trimmed, ends the block when
   blank, is skipped unless it has exactly one '=', and is stored. *)
SrvRead ==
    /\ pcSess = "read"
    /\ \E o \in ReadOutcomes :
             CASE o = "eof" ->
                    /\ pcSess' = "sendEOF"
                    /\ UNCHANGED <<c, nread, kvMap>>
               [] o = "operr" ->
                    /\ pcSess' = "after"
                    /\ UNCHANGED <<c, nread, kvMap>>
               [] o = "other" ->
                    /\ c' = [c EXCEPT !.err = "read"]
                    /\ pcSess' = "sendErr"
                    /\ UNCHANGED <<nread, kvMap>>
               [] o = "line" ->
                    LET l == sent[nread + 1]
                        sl == Split(l, "=")
                    IN  /\ nread' = nread + 1
                        /\ pcSess' = IF l = <<>> THEN "after" ELSE "read"
                        /\ kvMap' = IF l # <<>> /\ Len(sl) = 2
                                    THEN MapSet(kvMap, sl[1], sl[2])
                                    ELSE kvMap
                        /\ UNCHANGED c
    /\ UNCHANGED <<connCloses, writes, done, pcConnCloser>>
    /\ SrvFrame

(* server.go:161: a block with at least one key gets a response. *)
SrvAfterBlock ==
    /\ pcSess = "after"
    /\ pcSess' = IF kvMap # {} THEN "deadline" ELSE "loop"
    /\ UNCHANGED <<c, connCloses, nread, writes, kvMap, done, pcConnCloser>>
    /\ SrvFrame

(* server.go:163-166: SetWriteDeadline fails on a connection that was
   closed here; the failure is stored and sent on done, and Write follows
   in any case. *)
SrvSetWriteDeadline ==
    /\ pcSess = "deadline"
    /\ IF connCloses > 0
       THEN /\ c' = [c EXCEPT !.err = "deadline"]
            /\ pcSess' = "sendDeadline"
       ELSE /\ pcSess' = "write"
            /\ UNCHANGED c
    /\ UNCHANGED <<connCloses, nread, writes, kvMap, done, pcConnCloser>>
    /\ SrvFrame

(* How c.conn.Write can end: with an error on a connection closed here,
   either way when the peer is gone, well otherwise. *)
WriteOutcomes ==
    IF connCloses > 0 THEN {FALSE}
    ELSE IF peer \in {"closed", "reset"} THEN {TRUE, FALSE}
    ELSE {TRUE}

(* server.go:167-171: Write; a failure is stored and sent on done. *)
SrvWrite ==
    /\ pcSess = "write"
    /\ writes' = Append(writes, SrvResponse)
    /\ \E ok \in WriteOutcomes :
          IF ok
          THEN /\ pcSess' = "loop"
               /\ UNCHANGED c
          ELSE /\ c' = [c EXCEPT !.err = "write"]
               /\ pcSess' = "sendWrite"
    /\ UNCHANGED <<connCloses, nread, kvMap, done, pcConnCloser>>
    /\ SrvFrame

(* The peer of the session sends one more line. *)
SrvPeerSend ==
    /\ peer = "open"
    /\ Len(sent) < MaxSrvLines
    /\ \E l \in SrvLines : sent' = Append(sent, l)
    /\ UNCHANGED <<peer, nread>>
    /\ UNCHANGED <<runVars, sessVars, logVars, srvVars>>

NextSrv ==
    \/ SrvSpawnCloser
    \/ SrvDoneHandoff
    \/ SrvCloserSelect
    \/ SrvCloserClose
    \/ SrvCloserSetCC
    \/ SrvLoop
    \/ SrvRead
    \/ SrvAfterBlock
    \/ SrvSetWriteDeadline
    \/ SrvWrite
    \/ SrvPeerSend
    \/ PeerClose
    \/ PeerReset
    \/ Cancel

SpecSrv ==
    InitSrv /\ [][NextSrv]_vars

(* C23: whenever the session is at a send on done, the goroutine is still
   at its select to take the value, so the send cannot block forever; and
   c.conn.Close() is never called twice. *)
C23_SendOnDoneIsReceived ==
    /\ pcSess \in SendPoints => pcConnCloser = "select"
    /\ connCloses <= 1

====
